---- MODULE Spec2Model ----
(***************************************************************************)
(* Venue conflict detection and alternative-slot suggestion of the event   *)
(* hub (lib/venueConflict: checkVenueConflict, generateSuggestedSlots) and *)
(* the AddEvent page that calls it before inserting into public.events.    *)
(*                                                                         *)
(* Time is counted in ticks of 90 minutes since 00:00 of the day of the    *)
(* request, so 09:00 is tick 6, 21:00 is tick 14 and 24:00 is tick 16.     *)
(* The browser, the database session and the stored instants are taken to  *)
(* share one time zone (UTC), so an ISO string, the Date parsed from it    *)
(* and its getTime() all denote the same tick.                             *)
(***************************************************************************)
EXTENDS Integers, Sequences, FiniteSets, TLC

\* ---- program constants ---------------------------------------------------
\* new Date(`${eventDate}T09:00:00`) and new Date(`${eventDate}T21:00:00`)
DayStart == 6
DayEnd == 14
\* `${eventDate}T23:59:59`, the end of the calendar day, rounded to a tick
TicksPerDay == 16
\* .slice(0, 3)
MaxSuggestions == 3

\* ---- bounds of the model -------------------------------------------------
\* most rows of public.events on the day of the request, in any order
MaxBookings == 3
\* most rows when the call names one of them as excludeEventId
MaxEdited == 2
\* most rows when the request is longer than the working hours
MaxLong == 2
\* most rows beside a booking that spans the working hours
MaxBeside == 2
\* most rows when the bookings lie in the first hours of the working day
MaxFetched == 3
\* the bookings and requests of that case start at DayStart or at one of the
\* DetectSpan ticks after it
DetectSpan == 4
\* most rows when the rows are drawn in ascending order of start_time
MaxSorted == 4
\* lengths of the bookings and of the requests drawn, in ticks
Lengths == {1, 2}
\* bookings and requests lie between 06:00 and 22:30: a booking can end a
\* whole tick before DayStart and can end after DayEnd
Times == (DayStart - 2)..(DayEnd + 1)

\* the AddEvent pages open at the same time
Users == {"u1", "u2"}
\* the ticks a user types into the start and end fields: DayStart and the
\* FormSpan ticks after it
FormSpan == 1
FormTimes == DayStart..(DayStart + FormSpan)

\* ---- bounds of the reminders ----------------------------------------------
\* the e-mail addresses typed into NotifyModal and the events subscribed to
Emails == {"a@vit"}
NotifyEvents == {"e1", "e2"}
\* most rows of public.notifications
MaxSubscriptions == 2
\* the clock runs from hour 0 to hour MaxClock
MaxClock == 1
\* the invocations of the send-notifications function
Runs == {"r1", "r2"}
\* twoHoursFromNow.setHours(twoHoursFromNow.getHours() + 2)
ReminderHours == 2
\* a registration ends at hour 0, so that it has ended once the clock moves,
\* or ReminderHours after the last hour, so that it is more than
\* ReminderHours ahead until then
RegistrationEnds == {0, MaxClock + ReminderHours}

NoId == 0
TheVenue == "V"
\* the value of an empty datetime-local field
NoTime == -1

VARIABLES
    events,         \* rows of public.events, in the order the query returns them
    args,           \* arguments of the pending or last call of checkVenueConflict
    fetchError,     \* whether the query of that call came back with an error
    ret,            \* what the call returned; NoRet before it returns
    data,           \* the array the query resolved with, as it is after the call
    pc,             \* per page: where handleSubmit / the modal stands
    formData,       \* per page: the start_time and end_time fields
    submitted,      \* per page: the formData of the render whose handler is running
    errors,         \* per page: the field the last validation complained about
    conflictModal,  \* per page: conflictingEvents and suggestedSlots of the modal
    via,            \* per page: how createEvent was reached
    origin,         \* per row of events inserted by a page: how it was reached
    notifications,  \* rows of public.notifications
    regEnd,         \* per event: registration_end, in hours
    clock,          \* the time, in hours
    run,            \* per invocation of send-notifications: where the handler stands
    mails,          \* the reminder e-mails the mail service accepted, in order
    answer          \* per e-mail address: what NotifyModal showed for the last submit

engineVars == <<args, fetchError, ret, data>>
pageVars == <<pc, formData, submitted, errors, conflictModal, via, origin>>
notifyVars == <<notifications, regEnd, clock, run, mails, answer>>
vars == <<events, args, fetchError, ret, data, pc, formData, submitted,
          errors, conflictModal, via, origin,
          notifications, regEnd, clock, run, mails, answer>>

NoRet == [returned |-> FALSE]

\* ---- public.events and the query of checkVenueConflict -------------------
EventRow(id, venue, s, e) ==
    [id |-> id, venue_id |-> venue, start_time |-> s, end_time |-> e]

\* newStart.toISOString().split('T')[0]
EventDate(t) == t \div TicksPerDay

\* the query without the .neq('id', excludeEventId)
FetchExistingNoNeq(table, venueId, eventDate, excludeEventId) ==
    SelectSeq(table, LAMBDA ev :
        /\ ev.venue_id = venueId
        /\ ev.start_time >= eventDate * TicksPerDay
        /\ ev.start_time < (eventDate + 1) * TicksPerDay)

\* .eq('venue_id', venueId).gte('start_time', 00:00:00).lt('start_time', 23:59:59)
\* and .neq('id', excludeEventId) when excludeEventId is given
FetchExisting(table, venueId, eventDate, excludeEventId) ==
    SelectSeq(table, LAMBDA ev :
        /\ ev.venue_id = venueId
        /\ ev.start_time >= eventDate * TicksPerDay
        /\ ev.start_time < (eventDate + 1) * TicksPerDay
        /\ (excludeEventId # NoId => ev.id # excludeEventId))

\* ---- checkVenueConflict --------------------------------------------------
\* Overlap with the first clause closed at the existing booking's end
OverlapClosedEnd(newStart, newEnd, existingStart, existingEnd) ==
    \/ (newStart >= existingStart /\ newStart <= existingEnd)
    \/ (newEnd > existingStart /\ newEnd <= existingEnd)
    \/ (newStart <= existingStart /\ newEnd >= existingEnd)
    \/ (newStart >= existingStart /\ newEnd <= existingEnd)

\* Overlap with the first two clauses only: the request starts or ends
\* during the existing booking
OverlapStartsOrEndsDuring(newStart, newEnd, existingStart, existingEnd) ==
    \/ (newStart >= existingStart /\ newStart < existingEnd)
    \/ (newEnd > existingStart /\ newEnd <= existingEnd)

\* the four-clause overlap test of the forEach
Overlap(newStart, newEnd, existingStart, existingEnd) ==
    \/ (newStart >= existingStart /\ newStart < existingEnd)
    \/ (newEnd > existingStart /\ newEnd <= existingEnd)
    \/ (newStart <= existingStart /\ newEnd >= existingEnd)
    \/ (newStart >= existingStart /\ newEnd <= existingEnd)

\* only the first overlapping booking is kept
ConflictingEventsFirstOnly(newStart, newEnd, existingEvents) ==
    LET all == SelectSeq(existingEvents, LAMBDA ev :
                   Overlap(newStart, newEnd, ev.start_time, ev.end_time))
    IN IF all = <<>> THEN <<>> ELSE <<all[1]>>

\* conflictingEvents as the forEach builds it
ConflictingEvents(newStart, newEnd, existingEvents) ==
    SelectSeq(existingEvents, LAMBDA ev :
        Overlap(newStart, newEnd, ev.start_time, ev.end_time))

\* ---- generateSuggestedSlots ----------------------------------------------
TimeSlot(s, e) == [start_time |-> s, end_time |-> e, available |-> TRUE]

\* insert ev after every element whose start is <= ev.start: a stable sort
RECURSIVE InsertByStart(_, _)
InsertByStart(sorted, ev) ==
    IF sorted = <<>> THEN <<ev>>
    ELSE IF Head(sorted).start <= ev.start
         THEN <<Head(sorted)>> \o InsertByStart(Tail(sorted), ev)
         ELSE <<ev>> \o sorted

RECURSIVE SortByStart(_)
SortByStart(s) ==
    IF s = <<>> THEN <<>>
    ELSE InsertByStart(SortByStart(SubSeq(s, 1, Len(s) - 1)), s[Len(s)])

\* the .map() without the .sort(): the bookings in the order of the query
SortedEventsNoSort(existingEvents) ==
    [i \in 1..Len(existingEvents) |->
        [start |-> existingEvents[i].start_time, end |-> existingEvents[i].end_time]]

\* existingEvents.map(...).sort((a, b) => a.start - b.start)
SortedEvents(existingEvents) ==
    SortByStart([i \in 1..Len(existingEvents) |->
        [start |-> existingEvents[i].start_time, end |-> existingEvents[i].end_time]])

\* existingEvents sorted where it stands: .sort() without the .map() before it
ExistingEventsSortedInPlace(existingEvents) ==
    LET sorted == SortByStart([i \in 1..Len(existingEvents) |->
                      [start |-> existingEvents[i].start_time,
                       row |-> existingEvents[i]]])
    IN [i \in 1..Len(sorted) |-> sorted[i].row]

\* existingEvents after generateSuggestedSlots has run: .map() builds a new
\* array and .sort() sorts that one, so the array passed in stays as it was
ExistingEventsAfterSuggest(existingEvents) == existingEvents

\* the slot at DayStart offered without looking at the first booking
SlotBeforeFirstUnchecked(sortedEvents, eventDuration) ==
    IF Len(sortedEvents) > 0
    THEN <<TimeSlot(DayStart, DayStart + eventDuration)>>
    ELSE <<>>

\* "Check slot before first event"
SlotBeforeFirst(sortedEvents, eventDuration) ==
    IF Len(sortedEvents) > 0 /\ DayStart + eventDuration <= sortedEvents[1].start
    THEN <<TimeSlot(DayStart, DayStart + eventDuration)>>
    ELSE <<>>

\* SlotBetween taking every gap that is not negative
SlotBetweenAnyGap(currentEventEnd, nextEventStart, eventDuration) ==
    IF nextEventStart - currentEventEnd >= 0
    THEN <<TimeSlot(currentEventEnd, currentEventEnd + eventDuration)>>
    ELSE <<>>

\* SlotBetween offering the whole gap instead of eventDuration
SlotBetweenWholeGap(currentEventEnd, nextEventStart, eventDuration) ==
    IF nextEventStart - currentEventEnd >= eventDuration
    THEN <<TimeSlot(currentEventEnd, nextEventStart)>>
    ELSE <<>>

\* one iteration of "Check slots between events"
SlotBetween(currentEventEnd, nextEventStart, eventDuration) ==
    IF nextEventStart - currentEventEnd >= eventDuration
    THEN <<TimeSlot(currentEventEnd, currentEventEnd + eventDuration)>>
    ELSE <<>>

RECURSIVE SlotsBetweenFrom(_, _, _)
SlotsBetweenFrom(sortedEvents, eventDuration, i) ==
    IF i >= Len(sortedEvents) THEN <<>>
    ELSE SlotBetween(sortedEvents[i].end, sortedEvents[i + 1].start, eventDuration)
         \o SlotsBetweenFrom(sortedEvents, eventDuration, i + 1)

SlotsBetween(sortedEvents, eventDuration) ==
    SlotsBetweenFrom(sortedEvents, eventDuration, 1)

\* "Check slot after last event"
SlotAfterLast(sortedEvents, eventDuration) ==
    IF Len(sortedEvents) > 0
       /\ sortedEvents[Len(sortedEvents)].end + eventDuration <= DayEnd
    THEN <<TimeSlot(sortedEvents[Len(sortedEvents)].end,
                    sortedEvents[Len(sortedEvents)].end + eventDuration)>>
    ELSE <<>>

\* "If no existing events, suggest the requested time if within working hours"
SlotNoEvents(sortedEvents, requestedStart, requestedEnd) ==
    IF Len(sortedEvents) = 0 /\ requestedStart >= DayStart /\ requestedEnd <= DayEnd
    THEN <<TimeSlot(DayStart, DayStart + (requestedEnd - requestedStart))>>
    ELSE <<>>

\* the suggestions array before the final filter
Candidates(requestedStart, requestedEnd, existingEvents) ==
    LET eventDuration == requestedEnd - requestedStart
        sortedEvents == SortedEvents(existingEvents)
    IN SlotBeforeFirst(sortedEvents, eventDuration)
       \o SlotsBetween(sortedEvents, eventDuration)
       \o SlotAfterLast(sortedEvents, eventDuration)
       \o SlotNoEvents(sortedEvents, requestedStart, requestedEnd)

\* the filter testing the end of the slot only
WithinWorkingHoursEndOnly(slot) ==
    slot.end_time <= DayEnd

\* the predicate of the final .filter
WithinWorkingHours(slot) ==
    slot.start_time >= DayStart /\ slot.end_time <= DayEnd

\* no slice
SliceNothing(s) == s

\* .slice(0, 3)
SliceSuggestions(s) ==
    SubSeq(s, 1, IF Len(s) < MaxSuggestions THEN Len(s) ELSE MaxSuggestions)

\* the candidates sliced without the filter on the working hours
generateSuggestedSlotsNoFilter(requestedStart, requestedEnd, existingEvents) ==
    SliceSuggestions(Candidates(requestedStart, requestedEnd, existingEvents))

\* the slice taken before the filter
generateSuggestedSlotsSliceFirst(requestedStart, requestedEnd, existingEvents) ==
    SelectSeq(
        SliceSuggestions(Candidates(requestedStart, requestedEnd, existingEvents)),
        WithinWorkingHours)

generateSuggestedSlots(requestedStart, requestedEnd, existingEvents) ==
    SliceSuggestions(
        SelectSeq(Candidates(requestedStart, requestedEnd, existingEvents),
                  WithinWorkingHours))

\* generateSuggestedSlots called also when the query returns no booking
checkVenueConflictSuggestsWhenFree(venueId, startTime, endTime, excludeEventId, table, error) ==
    LET existingEvents ==
            FetchExisting(table, venueId, EventDate(startTime), excludeEventId)
        conflictingEvents == ConflictingEvents(startTime, endTime, existingEvents)
    IN [returned |-> TRUE,
        hasConflict |-> ~error /\ Len(conflictingEvents) > 0,
        conflictingEvents |-> IF error THEN <<>> ELSE conflictingEvents,
        suggestedSlots |->
            IF error \/ (Len(conflictingEvents) = 0 /\ Len(existingEvents) > 0)
            THEN <<>>
            ELSE generateSuggestedSlots(startTime, endTime, existingEvents)]

\* generateSuggestedSlots called whether or not a booking conflicts
checkVenueConflictAlwaysSuggests(venueId, startTime, endTime, excludeEventId, table, error) ==
    LET existingEvents ==
            FetchExisting(table, venueId, EventDate(startTime), excludeEventId)
        conflictingEvents == ConflictingEvents(startTime, endTime, existingEvents)
    IN IF error
       THEN [returned |-> TRUE, hasConflict |-> FALSE,
             conflictingEvents |-> <<>>, suggestedSlots |-> <<>>]
       ELSE [returned |-> TRUE,
             hasConflict |-> Len(conflictingEvents) > 0,
             conflictingEvents |-> conflictingEvents,
             suggestedSlots |->
                 generateSuggestedSlots(startTime, endTime, existingEvents)]

\* the value checkVenueConflict resolves to; error is the query's error and
\* table the rows of public.events at the time of the query
checkVenueConflict(venueId, startTime, endTime, excludeEventId, table, error) ==
    LET existingEvents ==
            FetchExisting(table, venueId, EventDate(startTime), excludeEventId)
        conflictingEvents == ConflictingEvents(startTime, endTime, existingEvents)
    IN IF error
       THEN [returned |-> TRUE, hasConflict |-> FALSE,
             conflictingEvents |-> <<>>, suggestedSlots |-> <<>>]
       ELSE [returned |-> TRUE,
             hasConflict |-> Len(conflictingEvents) > 0,
             conflictingEvents |-> conflictingEvents,
             suggestedSlots |->
                 IF Len(conflictingEvents) > 0
                 THEN generateSuggestedSlots(startTime, endTime, existingEvents)
                 ELSE <<>>]

\* the array of the query after checkVenueConflict has returned; data is
\* null when the query fails
DataAfterCall(venueId, startTime, endTime, excludeEventId, table, error) ==
    LET existingEvents ==
            FetchExisting(table, venueId, EventDate(startTime), excludeEventId)
        conflictingEvents == ConflictingEvents(startTime, endTime, existingEvents)
    IN IF error THEN <<>>
       ELSE IF Len(conflictingEvents) > 0
            THEN ExistingEventsAfterSuggest(existingEvents)
            ELSE existingEvents

\* ---- the engine called on every bounded table and request ----------------
Intervals == {iv \in Times \X Times : iv[2] - iv[1] \in Lengths}

RECURSIVE IntervalLists(_)
IntervalLists(n) ==
    IF n = 0 THEN {<<>>}
    ELSE LET shorter == IntervalLists(n - 1)
         IN shorter \cup {Append(l, iv) : l \in {s \in shorter : Len(s) = n - 1},
                                           iv \in Intervals}

\* lists in ascending order of start; equal starts come in either order
RECURSIVE SortedIntervalLists(_)
SortedIntervalLists(n) ==
    IF n = 0 THEN {<<>>}
    ELSE LET shorter == SortedIntervalLists(n - 1)
             longest == {s \in shorter : Len(s) = n - 1}
         IN shorter \cup
            {Append(p[1], p[2]) :
                p \in {q \in longest \X Intervals :
                          Len(q[1]) = 0 \/ q[1][Len(q[1])][1] <= q[2][1]}}

TableOf(l) == [i \in 1..Len(l) |-> EventRow(i, TheVenue, l[i][1], l[i][2])]

NoArgs == [called |-> FALSE]

CallArgs(venueId, startTime, endTime, excludeEventId) ==
    [called |-> TRUE, venueId |-> venueId, startTime |-> startTime,
     endTime |-> endTime, excludeEventId |-> excludeEventId]

InitCall ==
    /\ args = NoArgs
    /\ fetchError = FALSE
    /\ ret = NoRet
    /\ data = <<>>

\* a send-notifications invocation that has not been made
IdleRun ==
    [pc |-> "idle", at |-> 0, seen |-> <<>>, fetched |-> <<>>, i |-> 1,
     emailsSent |-> 0, errors |-> <<>>]

\* no subscription, no invocation of send-notifications, no reminder sent
InitNoReminders ==
    /\ notifications = <<>>
    /\ clock = 0
    /\ run = [r \in Runs |-> IdleRun]
    /\ mails = <<>>
    /\ answer = [e \in Emails |-> "none"]

\* useState(...) of AddEvent: empty fields, no errors, modal closed
NoModal == [conflictingEvents |-> <<>>, suggestedSlots |-> <<>>]

NotCreating == [override |-> FALSE, checked |-> FALSE]

InitPages ==
    /\ pc = [u \in Users |-> "form"]
    /\ formData = [u \in Users |-> [start_time |-> NoTime, end_time |-> NoTime]]
    /\ submitted = formData
    /\ errors = [u \in Users |-> "none"]
    /\ conflictModal = [u \in Users |-> NoModal]
    /\ via = [u \in Users |-> NotCreating]
    /\ origin = <<>>

\* every table of at most MaxBookings rows of one venue and one day
InitEngine ==
    /\ events \in {TableOf(l) : l \in IntervalLists(MaxBookings)}
    /\ InitCall
    /\ InitPages
    /\ InitNoReminders
    /\ regEnd = [e \in NotifyEvents |-> 0]

\* checkVenueConflict is called as handleSubmit calls it (end after start, no
\* excludeEventId), the query succeeds and the call returns
Check ==
    /\ ~args.called
    /\ \E iv \in Intervals :
        /\ args' = CallArgs(TheVenue, iv[1], iv[2], NoId)
        /\ ret' = checkVenueConflict(TheVenue, iv[1], iv[2], NoId, events, FALSE)
        /\ data' = DataAfterCall(TheVenue, iv[1], iv[2], NoId, events, FALSE)
    /\ fetchError' = FALSE
    /\ UNCHANGED <<notifyVars, events, pageVars>>

NextEngine == Check

SpecEngine == InitEngine /\ [][NextEngine]_vars

\* every table of at most MaxSorted rows in ascending order of start_time
InitSorted ==
    /\ events \in {TableOf(l) : l \in SortedIntervalLists(MaxSorted)}
    /\ InitCall
    /\ InitPages
    /\ InitNoReminders
    /\ regEnd = [e \in NotifyEvents |-> 0]

SpecSorted == InitSorted /\ [][NextEngine]_vars

\* every table of one booking that spans the working hours and at most
\* MaxBeside other rows, in any order
SpanningBookings ==
    {iv \in Times \X Times : iv[1] <= DayStart /\ iv[2] >= DayEnd}

InsertAt(l, k, x) == SubSeq(l, 1, k - 1) \o <<x>> \o SubSeq(l, k, Len(l))

InitSpanning ==
    /\ events \in {TableOf(InsertAt(c[1], c[2], c[3])) :
                      c \in {q \in IntervalLists(MaxBeside) \X (1..(MaxBeside + 1))
                                      \X SpanningBookings :
                                 q[2] <= Len(q[1]) + 1}}
    /\ InitCall
    /\ InitPages
    /\ InitNoReminders
    /\ regEnd = [e \in NotifyEvents |-> 0]

SpecSpanning == InitSpanning /\ [][NextEngine]_vars

\* ---- bookings and requests in the first hours of the working day ----------
DetectTimes == DayStart..(DayStart + DetectSpan + 1)

DetectIntervals == {iv \in DetectTimes \X DetectTimes : iv[2] - iv[1] \in Lengths}

RECURSIVE DetectIntervalLists(_)
DetectIntervalLists(n) ==
    IF n = 0 THEN {<<>>}
    ELSE LET shorter == DetectIntervalLists(n - 1)
         IN shorter \cup {Append(l, iv) : l \in {s \in shorter : Len(s) = n - 1},
                                           iv \in DetectIntervals}

\* every table of at most MaxFetched such rows, in any order
InitDetect ==
    /\ events \in {TableOf(l) : l \in DetectIntervalLists(MaxFetched)}
    /\ InitCall
    /\ InitPages
    /\ InitNoReminders
    /\ regEnd = [e \in NotifyEvents |-> 0]

\* checkVenueConflict called as handleSubmit calls it; the query succeeds
CheckDetect ==
    /\ ~args.called
    /\ \E iv \in DetectIntervals :
        /\ args' = CallArgs(TheVenue, iv[1], iv[2], NoId)
        /\ ret' = checkVenueConflict(TheVenue, iv[1], iv[2], NoId, events, FALSE)
        /\ data' = DataAfterCall(TheVenue, iv[1], iv[2], NoId, events, FALSE)
    /\ fetchError' = FALSE
    /\ UNCHANGED <<notifyVars, events, pageVars>>

\* the same call when the query comes back with an error
CheckDetectFetchFails ==
    /\ ~args.called
    /\ \E iv \in DetectIntervals :
        /\ args' = CallArgs(TheVenue, iv[1], iv[2], NoId)
        /\ ret' = checkVenueConflict(TheVenue, iv[1], iv[2], NoId, events, TRUE)
        /\ data' = DataAfterCall(TheVenue, iv[1], iv[2], NoId, events, TRUE)
    /\ fetchError' = TRUE
    /\ UNCHANGED <<notifyVars, events, pageVars>>

NextDetect == CheckDetect \/ CheckDetectFetchFails

SpecDetect == InitDetect /\ [][NextDetect]_vars

\* ---- checkVenueConflict called directly, with any start and end ----------
InitDirect ==
    /\ events \in {TableOf(l) : l \in IntervalLists(1)}
    /\ InitCall
    /\ InitPages
    /\ InitNoReminders
    /\ regEnd = [e \in NotifyEvents |-> 0]

\* a caller other than handleSubmit: nothing orders startTime and endTime
CheckDirect ==
    /\ ~args.called
    /\ \E s \in Times, e \in Times :
        /\ args' = CallArgs(TheVenue, s, e, NoId)
        /\ ret' = checkVenueConflict(TheVenue, s, e, NoId, events, FALSE)
        /\ data' = DataAfterCall(TheVenue, s, e, NoId, events, FALSE)
    /\ fetchError' = FALSE
    /\ UNCHANGED <<notifyVars, events, pageVars>>

\* the same call when the query comes back with an error
CheckDirectFetchFails ==
    /\ ~args.called
    /\ \E s \in Times, e \in Times :
        /\ args' = CallArgs(TheVenue, s, e, NoId)
        /\ ret' = checkVenueConflict(TheVenue, s, e, NoId, events, TRUE)
        /\ data' = DataAfterCall(TheVenue, s, e, NoId, events, TRUE)
    /\ fetchError' = TRUE
    /\ UNCHANGED <<notifyVars, events, pageVars>>

NextDirect == CheckDirect \/ CheckDirectFetchFails

SpecDirect == InitDirect /\ [][NextDirect]_vars

\* ---- checkVenueConflict called with excludeEventId ------------------------
InitExclude ==
    /\ events \in {TableOf(l) : l \in IntervalLists(MaxEdited)}
    /\ InitCall
    /\ InitPages
    /\ InitNoReminders
    /\ regEnd = [e \in NotifyEvents |-> 0]

\* the call names a stored row as excludeEventId: the row is being edited
CheckExcluding ==
    /\ ~args.called
    /\ \E iv \in Intervals, i \in 1..Len(events) :
        /\ args' = CallArgs(TheVenue, iv[1], iv[2], events[i].id)
        /\ ret' = checkVenueConflict(TheVenue, iv[1], iv[2], events[i].id,
                                     events, FALSE)
        /\ data' = DataAfterCall(TheVenue, iv[1], iv[2], events[i].id, events, FALSE)
    /\ fetchError' = FALSE
    /\ UNCHANGED <<notifyVars, events, pageVars>>

NextExclude == CheckExcluding

SpecExclude == InitExclude /\ [][NextExclude]_vars

\* ---- requests longer than the working hours --------------------------------
\* bookings and requests lie between 06:00 and 24:00, so that a booking can
\* start after a request of more than 12 hours that starts at DayStart
LongTimes == (DayStart - 2)..TicksPerDay

LongBookings == {iv \in LongTimes \X LongTimes : iv[2] - iv[1] \in Lengths}

LongRequests == {iv \in LongTimes \X LongTimes : iv[2] - iv[1] > DayEnd - DayStart}

RECURSIVE LongBookingLists(_)
LongBookingLists(n) ==
    IF n = 0 THEN {<<>>}
    ELSE LET shorter == LongBookingLists(n - 1)
         IN shorter \cup {Append(l, iv) : l \in {s \in shorter : Len(s) = n - 1},
                                           iv \in LongBookings}

InitLong ==
    /\ events \in {TableOf(l) : l \in LongBookingLists(MaxLong)}
    /\ InitCall
    /\ InitPages
    /\ InitNoReminders
    /\ regEnd = [e \in NotifyEvents |-> 0]

\* checkVenueConflict called for a request longer than DayEnd - DayStart
CheckLong ==
    /\ ~args.called
    /\ \E iv \in LongRequests :
        /\ args' = CallArgs(TheVenue, iv[1], iv[2], NoId)
        /\ ret' = checkVenueConflict(TheVenue, iv[1], iv[2], NoId, events, FALSE)
        /\ data' = DataAfterCall(TheVenue, iv[1], iv[2], NoId, events, FALSE)
    /\ fetchError' = FALSE
    /\ UNCHANGED <<notifyVars, events, pageVars>>

NextLong == CheckLong

SpecLong == InitLong /\ [][NextLong]_vars

\* ---- one stored row and one request, each with any start and end ---------
InitPair ==
    /\ events \in {TableOf(<<iv>>) : iv \in Times \X Times}
    /\ InitCall
    /\ InitPages
    /\ InitNoReminders
    /\ regEnd = [e \in NotifyEvents |-> 0]

SpecPair == InitPair /\ [][NextDirect]_vars

\* ---- the AddEvent page ----------------------------------------------------
\* handleInputChange('start_time', value); the fields stay enabled while
\* handleSubmit or createEvent is awaiting, only the submit button does not
ChangeStartTime(u) ==
    /\ pc[u] \in {"form", "checking", "creating"}
    /\ \E t \in FormTimes :
        formData' = [formData EXCEPT ![u].start_time = t]
    /\ errors' = [errors EXCEPT ![u] = IF @ = "start_time" THEN "none" ELSE @]
    /\ UNCHANGED <<notifyVars, events, engineVars, pc, submitted, conflictModal, via, origin>>

\* handleInputChange('end_time', value)
ChangeEndTime(u) ==
    /\ pc[u] \in {"form", "checking", "creating"}
    /\ \E t \in FormTimes :
        formData' = [formData EXCEPT ![u].end_time = t]
    /\ errors' = [errors EXCEPT ![u] = IF @ = "end_time" THEN "none" ELSE @]
    /\ UNCHANGED <<notifyVars, events, engineVars, pc, submitted, conflictModal, via, origin>>

\* eventSchema.safeParse: start_time and end_time must not be empty
SchemaError(form) ==
    IF form.start_time = NoTime THEN "start_time"
    ELSE IF form.end_time = NoTime THEN "end_time"
    ELSE "none"

\* handleSubmit up to the call of checkVenueConflict; the other fields of the
\* form (name, venue, club, registration window) are filled in validly
SubmitInvalid(u) ==
    /\ pc[u] = "form"
    /\ \/ /\ SchemaError(formData[u]) # "none"
          /\ errors' = [errors EXCEPT ![u] = SchemaError(formData[u])]
       \/ /\ SchemaError(formData[u]) = "none"
          /\ formData[u].end_time <= formData[u].start_time
          /\ errors' = [errors EXCEPT ![u] = "end_time"]
    /\ UNCHANGED <<notifyVars, events, engineVars, pc, formData, submitted, conflictModal, via, origin>>

SubmitValid(u) ==
    /\ pc[u] = "form"
    /\ SchemaError(formData[u]) = "none"
    /\ formData[u].end_time > formData[u].start_time
    /\ errors' = [errors EXCEPT ![u] = "none"]
    /\ pc' = [pc EXCEPT ![u] = "checking"]
    /\ submitted' = [submitted EXCEPT ![u] = formData[u]]
    /\ UNCHANGED <<notifyVars, events, engineVars, formData, conflictModal, via, origin>>

\* handleSubmit going on to createEvent whatever the ConflictCheck says
AfterCheckIgnoresConflict(u, conflictCheck, error) ==
    /\ pc' = [pc EXCEPT ![u] = "creating"]
    /\ via' = [via EXCEPT ![u] = [override |-> FALSE, checked |-> ~error]]
    /\ UNCHANGED conflictModal

\* what handleSubmit does with the ConflictCheck it awaited
AfterCheck(u, conflictCheck, error) ==
    IF conflictCheck.hasConflict
    THEN /\ conflictModal' = [conflictModal EXCEPT ![u] =
                [conflictingEvents |-> conflictCheck.conflictingEvents,
                 suggestedSlots |-> conflictCheck.suggestedSlots]]
         /\ pc' = [pc EXCEPT ![u] = "modal"]
         /\ UNCHANGED via
    ELSE /\ pc' = [pc EXCEPT ![u] = "creating"]
         /\ via' = [via EXCEPT ![u] = [override |-> FALSE, checked |-> ~error]]
         /\ UNCHANGED conflictModal

\* the query of checkVenueConflict reads public.events and the call returns
QuerySucceeds(u) ==
    /\ pc[u] = "checking"
    /\ AfterCheck(u, checkVenueConflict(TheVenue, submitted[u].start_time,
                       submitted[u].end_time, NoId, events, FALSE), FALSE)
    /\ UNCHANGED <<notifyVars, events, engineVars, formData, submitted, errors, origin>>

\* the query comes back with an error
QueryFails(u) ==
    /\ pc[u] = "checking"
    /\ AfterCheck(u, checkVenueConflict(TheVenue, submitted[u].start_time,
                       submitted[u].end_time, NoId, events, TRUE), TRUE)
    /\ UNCHANGED <<notifyVars, events, engineVars, formData, submitted, errors, origin>>

\* handleSelectSlot going on to createEvent with the slot it was given
SelectSlotAndCreate(u) ==
    /\ pc[u] = "modal"
    /\ \E i \in 1..Len(conflictModal[u].suggestedSlots) :
        formData' = [formData EXCEPT
            ![u].start_time = conflictModal[u].suggestedSlots[i].start_time,
            ![u].end_time = conflictModal[u].suggestedSlots[i].end_time]
    /\ pc' = [pc EXCEPT ![u] = "creating"]
    /\ UNCHANGED <<notifyVars, events, engineVars, submitted, errors, conflictModal, via, origin>>

\* handleSelectSlot(slot)
SelectSlot(u) ==
    /\ pc[u] = "modal"
    /\ \E i \in 1..Len(conflictModal[u].suggestedSlots) :
        formData' = [formData EXCEPT
            ![u].start_time = conflictModal[u].suggestedSlots[i].start_time,
            ![u].end_time = conflictModal[u].suggestedSlots[i].end_time]
    /\ pc' = [pc EXCEPT ![u] = "form"]
    /\ UNCHANGED <<notifyVars, events, engineVars, submitted, errors, conflictModal, via, origin>>

\* the Cancel button of the modal: onOpenChange(false)
CancelModal(u) ==
    /\ pc[u] = "modal"
    /\ pc' = [pc EXCEPT ![u] = "form"]
    /\ UNCHANGED <<notifyVars, events, engineVars, formData, submitted, errors, conflictModal, via, origin>>

\* the Create Anyway button rendered on every conflict modal
IgnoreConflictAlways(u) ==
    /\ pc[u] = "modal"
    /\ pc' = [pc EXCEPT ![u] = "creating"]
    /\ via' = [via EXCEPT ![u] = [override |-> TRUE, checked |-> TRUE]]
    /\ submitted' = [submitted EXCEPT ![u] = formData[u]]
    /\ UNCHANGED <<notifyVars, events, engineVars, formData, errors, conflictModal, origin>>

\* the Create Anyway button, rendered when suggestedSlots is empty:
\* handleIgnoreConflict
IgnoreConflict(u) ==
    /\ pc[u] = "modal"
    /\ conflictModal[u].suggestedSlots = <<>>
    /\ pc' = [pc EXCEPT ![u] = "creating"]
    /\ via' = [via EXCEPT ![u] = [override |-> TRUE, checked |-> TRUE]]
    /\ submitted' = [submitted EXCEPT ![u] = formData[u]]
    /\ UNCHANGED <<notifyVars, events, engineVars, formData, errors, conflictModal, origin>>

\* createEvent: supabase.from('events').insert([eventData]) succeeds
InsertSucceeds(u) ==
    /\ pc[u] = "creating"
    /\ events' = Append(events, EventRow(Len(events) + 1, TheVenue,
                            submitted[u].start_time, submitted[u].end_time))
    /\ origin' = Append(origin, via[u])
    /\ pc' = [pc EXCEPT ![u] = "done"]
    /\ UNCHANGED <<notifyVars, engineVars, formData, submitted, errors, conflictModal, via>>

\* createEvent: the insert comes back with an error
InsertFails(u) ==
    /\ pc[u] = "creating"
    /\ pc' = [pc EXCEPT ![u] = "form"]
    /\ UNCHANGED <<notifyVars, events, engineVars, formData, submitted, errors, conflictModal, via, origin>>

InitApp ==
    /\ events = <<>>
    /\ InitCall
    /\ InitPages
    /\ InitNoReminders
    /\ regEnd = [e \in NotifyEvents |-> 0]

NextApp ==
    \E u \in Users :
        \/ ChangeStartTime(u)
        \/ ChangeEndTime(u)
        \/ SubmitInvalid(u)
        \/ SubmitValid(u)
        \/ QuerySucceeds(u)
        \/ QueryFails(u)
        \/ SelectSlot(u)
        \/ CancelModal(u)
        \/ IgnoreConflict(u)
        \/ InsertSucceeds(u)
        \/ InsertFails(u)

SpecApp == InitApp /\ [][NextApp]_vars

\* ---- subscriptions and the send-notifications function -------------------
NotificationRow(id, email, eventId) ==
    [id |-> id, email |-> email, event_id |-> eventId, status |-> "pending"]

\* CREATE TABLE public.notifications: the only key is id, the PRIMARY KEY;
\* the insert violates a unique constraint (SQLSTATE 23505) when the key of
\* the new row is taken
UniqueViolation(table, row) ==
    \E k \in 1..Len(table) : table[k].id = row.id

\* NotifyModal.handleSubmit with a valid e-mail address: the insert, with id
\* DEFAULT gen_random_uuid(), and what the modal shows for its outcome
Subscribe(e, ev) ==
    /\ Len(notifications) < MaxSubscriptions
    /\ LET row == NotificationRow(Len(notifications) + 1, e, ev)
       IN IF UniqueViolation(notifications, row)
          THEN /\ answer' = [answer EXCEPT ![e] = "already subscribed"]
               /\ UNCHANGED notifications
          ELSE /\ notifications' = Append(notifications, row)
               /\ answer' = [answer EXCEPT ![e] = "subscribed"]
    /\ UNCHANGED <<regEnd, clock, run, mails, events, engineVars, pageVars>>

\* the insert comes back with another error: the toast 'Failed to subscribe'
SubscribeFails(e) ==
    /\ answer' = [answer EXCEPT ![e] = "failed"]
    /\ UNCHANGED <<notifications, regEnd, clock, run, mails, events, engineVars, pageVars>>

\* an hour passes
Tick ==
    /\ clock < MaxClock
    /\ clock' = clock + 1
    /\ UNCHANGED <<notifications, regEnd, run, mails, answer, events, engineVars, pageVars>>

\* the query without the .eq('status', 'pending')
PendingDueAnyStatus(table, ends, now) ==
    LET rows == SelectSeq(table, LAMBDA n :
                    /\ ends[n.event_id] <= now + ReminderHours
                    /\ ends[n.event_id] >= now)
    IN [k \in 1..Len(rows) |-> rows[k].id]

\* .eq('status', 'pending').lte('events.registration_end', twoHoursFromNow)
\* .gte('events.registration_end', now): the ids of the rows selected
PendingDue(table, ends, now) ==
    LET rows == SelectSeq(table, LAMBDA n :
                    /\ n.status = "pending"
                    /\ ends[n.event_id] <= now + ReminderHours
                    /\ ends[n.event_id] >= now)
    IN [k \in 1..Len(rows) |-> rows[k].id]

\* the handler after one turn of the for loop: the next notification, or
\* the response when there is none left
AfterTurn(r, i) == IF i > Len(run[r].fetched) THEN "done" ELSE "send"

\* the query of the handler succeeds
RunQuery(r) ==
    /\ run[r].pc = "idle"
    /\ LET fetched == PendingDue(notifications, regEnd, clock)
       IN run' = [run EXCEPT ![r] =
              [pc |-> IF fetched = <<>> THEN "done" ELSE "send",
               at |-> clock, seen |-> notifications, fetched |-> fetched,
               i |-> 1, emailsSent |-> 0, errors |-> <<>>]]
    /\ UNCHANGED <<notifications, regEnd, clock, mails, answer, events, engineVars, pageVars>>

\* the query fails: throw notificationsError, the response has status 400
RunQueryFails(r) ==
    /\ run[r].pc = "idle"
    /\ run' = [run EXCEPT ![r].pc = "failed", ![r].at = clock]
    /\ UNCHANGED <<notifications, regEnd, clock, mails, answer, events, engineVars, pageVars>>

\* await sendEmail(...) resolves: the mail service accepted the reminder
SendOk(r) ==
    /\ run[r].pc = "send"
    /\ mails' = Append(mails, [run |-> r, id |-> run[r].fetched[run[r].i]])
    /\ run' = [run EXCEPT ![r].pc = "update"]
    /\ UNCHANGED <<notifications, regEnd, clock, answer, events, engineVars, pageVars>>

\* a failing turn ending the loop instead of going on to the next turn
SendFailsEndsLoop(r) ==
    /\ run[r].pc = "send"
    /\ run' = [run EXCEPT ![r].errors = Append(@, run[r].fetched[run[r].i]),
                          ![r].i = @ + 1,
                          ![r].pc = "done"]
    /\ UNCHANGED <<notifications, regEnd, clock, mails, answer, events, engineVars, pageVars>>

\* sendEmail throws: the catch records the notification and the loop goes on
SendFails(r) ==
    /\ run[r].pc = "send"
    /\ run' = [run EXCEPT ![r].errors = Append(@, run[r].fetched[run[r].i]),
                          ![r].i = @ + 1,
                          ![r].pc = AfterTurn(r, run[r].i + 1)]
    /\ UNCHANGED <<notifications, regEnd, clock, mails, answer, events, engineVars, pageVars>>

\* .update({ status: 'sent', ... }).eq('id', notification.id) succeeds
UpdateOk(r) ==
    /\ run[r].pc = "update"
    /\ notifications' = [notifications EXCEPT
                             ![run[r].fetched[run[r].i]].status = "sent"]
    /\ run' = [run EXCEPT ![r].emailsSent = @ + 1,
                          ![r].i = @ + 1,
                          ![r].pc = AfterTurn(r, run[r].i + 1)]
    /\ UNCHANGED <<regEnd, clock, mails, answer, events, engineVars, pageVars>>

\* the update resolves with an error: the result is not looked at, so the
\* handler goes on as after a successful update
UpdateFails(r) ==
    /\ run[r].pc = "update"
    /\ run' = [run EXCEPT ![r].emailsSent = @ + 1,
                          ![r].i = @ + 1,
                          ![r].pc = AfterTurn(r, run[r].i + 1)]
    /\ UNCHANGED <<notifications, regEnd, clock, mails, answer, events, engineVars, pageVars>>

InitNotify ==
    /\ events = <<>>
    /\ InitCall
    /\ pc = [u \in Users |-> "form"]
    /\ formData = [u \in Users |-> [start_time |-> NoTime, end_time |-> NoTime]]
    /\ submitted = formData
    /\ errors = [u \in Users |-> "none"]
    /\ conflictModal = [u \in Users |-> NoModal]
    /\ via = [u \in Users |-> NotCreating]
    /\ origin = <<>>
    /\ InitNoReminders
    /\ regEnd \in [NotifyEvents -> RegistrationEnds]

NextNotify ==
    \/ \E e \in Emails, ev \in NotifyEvents : Subscribe(e, ev)
    \/ \E e \in Emails : SubscribeFails(e)
    \/ Tick
    \/ \E r \in Runs :
          \/ RunQuery(r)
          \/ RunQueryFails(r)
          \/ SendOk(r)
          \/ SendFails(r)
          \/ UpdateOk(r)
          \/ UpdateFails(r)

SpecNotify == InitNotify /\ [][NextNotify]_vars

\* ---- properties ----------------------------------------------------------
\* half-open interval intersection
HalfOpenOverlap(aStart, aEnd, bStart, bEnd) == aStart < bEnd /\ bStart < aEnd

\* the rows the query of the last call selected
Fetched ==
    FetchExisting(events, args.venueId, EventDate(args.startTime), args.excludeEventId)

RequestedDuration == args.endTime - args.startTime

ConflictReported == ret.returned /\ ~fetchError /\ ret.hasConflict

SlotsOf(r) == {r.suggestedSlots[i] : i \in 1..Len(r.suggestedSlots)}

Rows(t) == {t[i] : i \in 1..Len(t)}

\* C1: no suggested slot of a conflicting request overlaps an existing booking,
\* also when the bookings overlap or nest inside one another.
C1_NoSlotOverlapsBooking ==
    ConflictReported =>
        \A slot \in SlotsOf(ret) : \A b \in Rows(Fetched) :
            ~HalfOpenOverlap(slot.start_time, slot.end_time, b.start_time, b.end_time)

\* C2: a fetched booking is listed in conflictingEvents if and only if it
\* intersects the request as a half-open interval.
C2_ConflictIffHalfOpenOverlap ==
    (ret.returned /\ ~fetchError /\ args.startTime < args.endTime) =>
        \A b \in Rows(Fetched) :
            (b \in Rows(ret.conflictingEvents))
                <=> HalfOpenOverlap(args.startTime, args.endTime,
                                    b.start_time, b.end_time)

\* a call with a booking that only touches the request, one that overlaps it
\* partly and one equal to it
C2_Witness ==
    /\ ret.returned /\ ~fetchError
    /\ \E b \in Rows(Fetched) :
            b.end_time = args.startTime /\ b \notin Rows(ret.conflictingEvents)
    /\ \E b \in Rows(Fetched) :
            /\ b.start_time > args.startTime /\ b.start_time < args.endTime
            /\ b.end_time > args.endTime
            /\ b \in Rows(ret.conflictingEvents)
    /\ \E b \in Rows(Fetched) :
            /\ b.start_time = args.startTime /\ b.end_time = args.endTime
            /\ b \in Rows(ret.conflictingEvents)

\* C3: when the query of the conflict check fails, the failure reaches
\* handleSubmit and no event is inserted: every stored event was inserted
\* after a conflict check that could be performed.
C3_FetchFailureBlocksInsert ==
    \A i \in 1..Len(origin) : origin[i].checked

\* the starts of the intervals of the requested duration that lie inside the
\* working hours and intersect no existing booking
FreeStarts ==
    {s \in DayStart..DayEnd :
        /\ s + RequestedDuration <= DayEnd
        /\ \A b \in Rows(Fetched) :
               ~HalfOpenOverlap(s, s + RequestedDuration, b.start_time, b.end_time)}

\* C4: an empty suggestion list for a conflicting request means that no
\* interval of the requested duration inside the working hours is free.
C4_EmptyMeansNoAlternative ==
    (ConflictReported /\ ret.suggestedSlots = <<>>) => FreeStarts = {}

\* C5: when no page uses Create Anyway (and every conflict query succeeds),
\* the write to public.events enforces the overlap constraint: no two stored
\* events of one venue overlap.
C5_StoredEventsNeverOverlap ==
    (\A i \in 1..Len(origin) : origin[i].checked /\ ~origin[i].override) =>
        \A i \in 1..Len(events) : \A j \in (i + 1)..Len(events) :
            events[i].venue_id = events[j].venue_id =>
                ~HalfOpenOverlap(events[i].start_time, events[i].end_time,
                                 events[j].start_time, events[j].end_time)

\* C6: checkVenueConflict called with startTime >= endTime fails with a
\* validation error instead of returning a ConflictCheck.
C6_RejectsStartNotBeforeEnd ==
    (args.called /\ args.startTime >= args.endTime) => ~ret.returned

\* C7: every suggested slot has exactly the requested duration.
C7_SlotsHaveRequestedDuration ==
    ret.returned =>
        \A slot \in SlotsOf(ret) :
            slot.end_time - slot.start_time = RequestedDuration

\* a result with a slot before the first booking, one between the two
\* bookings and one after the last, for a request of two ticks
C7_Witness ==
    /\ ConflictReported
    /\ Len(ret.suggestedSlots) = 3
    /\ Len(events) = 2
    /\ RequestedDuration = 2

\* C8: every suggested slot lies inside the working hours.
C8_SlotsInsideWorkingHours ==
    ret.returned =>
        \A slot \in SlotsOf(ret) :
            DayStart <= slot.start_time /\ slot.end_time <= DayEnd

\* a result that keeps a slot while the candidate after a booking that ends
\* before DayStart was dropped
C8_Witness ==
    /\ ConflictReported
    /\ ret.suggestedSlots # <<>>
    /\ \E b \in Rows(Fetched) : b.end_time < DayStart
    /\ LET c == Candidates(args.startTime, args.endTime, Fetched)
       IN \E i \in 1..Len(c) : c[i].start_time < DayStart

\* C9: at most three slots are returned.
C9_AtMostThreeSlots ==
    ret.returned => Len(ret.suggestedSlots) <= 3

\* a result cut to three slots out of more candidates inside the working hours
C9_Witness ==
    /\ ConflictReported
    /\ Len(ret.suggestedSlots) = 3
    /\ Len(SelectSeq(Candidates(args.startTime, args.endTime, Fetched),
                     WithinWorkingHours)) > 3

\* the gaps of a table b in ascending order of start, numbered 0 (before the
\* first booking), i in 1..n-1 (between b[i] and b[i+1]) and n (after the last)
GapStart(b, k) == IF k = 0 THEN DayStart ELSE b[k].end_time

GapFeasible(b, d, k) ==
    IF k = 0 THEN DayStart + d <= b[1].start_time
    ELSE IF k < Len(b) THEN b[k + 1].start_time - b[k].end_time >= d
    ELSE b[k].end_time + d <= DayEnd

\* the feasible gaps whose earliest slot lies inside the working hours
KeptGaps(b, d) ==
    {k \in 0..Len(b) :
        /\ GapFeasible(b, d, k)
        /\ DayStart <= GapStart(b, k) /\ GapStart(b, k) + d <= DayEnd}

NthGap(gaps, i) == CHOOSE k \in gaps : Cardinality({m \in gaps : m < k}) = i - 1

IsSortedByStart(b) ==
    \A i \in 1..(Len(b) - 1) : b[i].start_time <= b[i + 1].start_time

\* C10: for a non-empty table in ascending order of start the suggestions are
\* the earliest slots of the first three feasible gaps that lie inside the
\* working hours, in the order before-first, between (chronological),
\* after-last; gaps whose slot lies outside are dropped before the cut.
C10_FirstThreeFeasibleGaps ==
    (ConflictReported /\ IsSortedByStart(Fetched)) =>
        LET d == RequestedDuration
            kept == KeptGaps(Fetched, d)
            n == IF Cardinality(kept) < 3 THEN Cardinality(kept) ELSE 3
        IN ret.suggestedSlots =
               [i \in 1..n |->
                   [start_time |-> GapStart(Fetched, NthGap(kept, i)),
                    end_time |-> GapStart(Fetched, NthGap(kept, i)) + d,
                    available |-> TRUE]]

\* a result of three slots behind a feasible gap that starts before DayStart
\* and is dropped, so the cut falls after the drop
C10_Witness ==
    /\ ConflictReported
    /\ IsSortedByStart(Fetched)
    /\ Len(ret.suggestedSlots) = 3
    /\ GapFeasible(Fetched, RequestedDuration, 1)
    /\ GapStart(Fetched, 1) < DayStart

\* the positions of the fetched rows that intersect the request
OverlappingPositions ==
    {i \in 1..Len(Fetched) :
        HalfOpenOverlap(args.startTime, args.endTime,
                        Fetched[i].start_time, Fetched[i].end_time)}

\* C11: conflictingEvents is exactly the subsequence of the fetched rows that
\* intersect the request, in the order of the fetched rows; an empty table
\* gives an empty list.
C11_ConflictsAreOverlappingSubsequence ==
    (ret.returned /\ ~fetchError) =>
        ret.conflictingEvents =
            [k \in 1..Cardinality(OverlappingPositions) |->
                Fetched[NthGap(OverlappingPositions, k)]]

\* two conflicting rows around a row that does not conflict, the later
\* booking fetched first
C11_Witness ==
    /\ ret.returned /\ ~fetchError
    /\ Len(Fetched) = 3
    /\ OverlappingPositions = {1, 3}
    /\ Fetched[1].start_time > Fetched[3].start_time

\* C12: the conflicting bookings are in ascending order of start whatever
\* order the store returned the rows in.  The query has no .order(), so the
\* forEach keeps the order of the store.
C12_ConflictsAscendingAnyOrder ==
    ret.returned => IsSortedByStart(ret.conflictingEvents)

\* the table as it would be had the row never been stored
WithoutRow(t, id) == SelectSeq(t, LAMBDA ev : ev.id # id)

\* C13: the row named by excludeEventId never appears in conflictingEvents
\* and is never a gap boundary of the suggester: the call returns what it
\* returns, without excludeEventId, on the table that lacks the row.
C13_ExcludedRowPlaysNoPart ==
    (ret.returned /\ args.excludeEventId # NoId) =>
        /\ \A i \in 1..Len(ret.conflictingEvents) :
               ret.conflictingEvents[i].id # args.excludeEventId
        /\ ret = checkVenueConflict(args.venueId, args.startTime, args.endTime,
                     NoId, WithoutRow(events, args.excludeEventId), FALSE)

\* the excluded row has the very interval of the request, another row
\* conflicts, and with the excluded row as a boundary the suggestions would
\* have been different
C13_Witness ==
    /\ ret.returned /\ args.excludeEventId # NoId
    /\ \E i \in 1..Len(events) :
          /\ events[i].id = args.excludeEventId
          /\ events[i].start_time = args.startTime
          /\ events[i].end_time = args.endTime
    /\ ret.hasConflict
    /\ ret.suggestedSlots #
          checkVenueConflict(args.venueId, args.startTime, args.endTime,
                             NoId, events, FALSE).suggestedSlots

\* C15: for a request longer than DayEnd - DayStart the suggester returns an
\* empty list whatever the bookings, in the call and on its own.
C15_LongRequestGetsNoSlot ==
    (ret.returned /\ RequestedDuration > DayEnd - DayStart) =>
        /\ ret.suggestedSlots = <<>>
        /\ generateSuggestedSlots(args.startTime, args.endTime, Fetched) = <<>>

\* a conflicting request longer than the working hours for which a gap of
\* the bookings is long enough, and one for which the time from DayStart to
\* the first booking is: a candidate is built and the filter drops it
C15_Witness ==
    /\ ret.returned /\ ret.hasConflict
    /\ RequestedDuration > DayEnd - DayStart
    /\ Candidates(args.startTime, args.endTime, Fetched) # <<>>
    /\ \/ SlotBeforeFirst(SortedEvents(Fetched), RequestedDuration) # <<>>
       \/ SlotsBetween(SortedEvents(Fetched), RequestedDuration) # <<>>

\* C16: for a request of positive duration and a table in ascending order
\* of start, a pair of adjacent bookings whose gap is zero or negative
\* yields nothing in the loop over the pairs, and a suggestion that starts at
\* the end of its first booking comes from another pair with a long enough
\* gap or from the time after the last booking.
C16_NoSlotFromClosedGap ==
    (ret.returned /\ ~fetchError /\ RequestedDuration > 0) =>
        LET b == Fetched
            d == RequestedDuration
            n == Len(b)
            starts == {ret.suggestedSlots[j].start_time :
                          j \in 1..Len(ret.suggestedSlots)}
        IN IsSortedByStart(b) =>
           \A i \in 1..(n - 1) :
              b[i + 1].start_time - b[i].end_time <= 0 =>
                 /\ SlotBetween(b[i].end_time, b[i + 1].start_time, d) = <<>>
                 /\ b[i].end_time \in starts =>
                        \/ \E k \in 1..(n - 1) :
                              /\ k # i
                              /\ b[k].end_time = b[i].end_time
                              /\ b[k + 1].start_time - b[k].end_time >= d
                        \/ /\ b[n].end_time = b[i].end_time
                           /\ b[i].end_time + d <= DayEnd

\* contiguous bookings and overlapping bookings in one table, where a slot
\* is suggested at the end of the first booking of the overlapping pair
C16_Witness ==
    /\ ConflictReported
    /\ IsSortedByStart(Fetched)
    /\ \E i \in 1..(Len(Fetched) - 1) :
          Fetched[i + 1].start_time - Fetched[i].end_time = 0
    /\ \E i \in 1..(Len(Fetched) - 1) :
          /\ Fetched[i + 1].start_time - Fetched[i].end_time < 0
          /\ \E slot \in SlotsOf(ret) : slot.start_time = Fetched[i].end_time

\* C17: when a fetched booking spans the working hours, every request of
\* positive duration that intersects the working hours conflicts and gets no
\* suggestion.  The slot after the booking that starts last is offered
\* without looking at the booking that spans the day (as in C1).
C17_SpanningBookingLeavesNoSlot ==
    (/\ ret.returned /\ ~fetchError
     /\ \E b \in Rows(Fetched) : b.start_time <= DayStart /\ b.end_time >= DayEnd
     /\ RequestedDuration > 0
     /\ HalfOpenOverlap(args.startTime, args.endTime, DayStart, DayEnd)) =>
        /\ ret.hasConflict
        /\ ret.suggestedSlots = <<>>

C18_SelectSlotIsAdvisory ==
    [][/\ \A u \in Users :
            /\ (pc[u] = "modal" /\ formData'[u] # formData[u]) =>
                  /\ events' = events
                  /\ pc'[u] = "form"
                  /\ \E slot \in SlotsOf(conflictModal[u]) :
                        /\ formData'[u].start_time = slot.start_time
                        /\ formData'[u].end_time = slot.end_time
            /\ pc[u] = "form" => pc'[u] \in {"form", "checking"}
            /\ (pc[u] # "creating" /\ pc'[u] = "creating") =>
                  \/ /\ pc[u] = "checking"
                     /\ \E error \in BOOLEAN :
                          ~checkVenueConflict(TheVenue, submitted[u].start_time,
                              submitted[u].end_time, NoId, events, error).hasConflict
                  \/ /\ pc[u] = "modal"
                     /\ conflictModal[u].suggestedSlots = <<>>
       /\ events' # events =>
            \E u \in Users :
                /\ pc[u] = "creating"
                /\ events' = Append(events, EventRow(Len(events) + 1, TheVenue,
                                 submitted[u].start_time, submitted[u].end_time))
      ]_vars

\* a page was shown a slot, took it, submitted again, was checked against
\* the rows then stored and has stored an event with the slot's times
C18_Witness ==
    \E u \in Users :
        /\ pc[u] = "done"
        /\ submitted[u].end_time \notin FormTimes
        /\ \E slot \in SlotsOf(conflictModal[u]) :
              /\ submitted[u].start_time = slot.start_time
              /\ submitted[u].end_time = slot.end_time
        /\ \E i \in 1..Len(events) :
              /\ events[i].start_time = submitted[u].start_time
              /\ events[i].end_time = submitted[u].end_time
              /\ origin[i].checked /\ ~origin[i].override

\* C14: hasConflict is true exactly when conflictingEvents is not empty, and
\* without a conflict the suggester is not run: suggestedSlots is empty.
C14_SuggestOnlyOnConflict ==
    ret.returned =>
        /\ ret.hasConflict <=> (Len(ret.conflictingEvents) > 0)
        /\ ~ret.hasConflict => ret.suggestedSlots = <<>>

\* a call without conflict on a table for which the suggester, had it been
\* run, would have offered a slot
C14_Witness ==
    /\ ret.returned /\ ~fetchError
    /\ ~ret.hasConflict
    /\ Fetched # <<>>
    /\ generateSuggestedSlots(args.startTime, args.endTime, Fetched) # <<>>
\* C21: the overlap test is symmetric: the call for A against the stored row
\* B reports a conflict exactly when the call for B against the stored row A
\* does.
C21_OverlapIsSymmetric ==
    (ret.returned /\ ~fetchError /\ Len(events) = 1) =>
        ret.hasConflict =
            checkVenueConflict(TheVenue, events[1].start_time, events[1].end_time,
                NoId, TableOf(<<<<args.startTime, args.endTime>>>>), FALSE).hasConflict

\* the request lies strictly inside the stored row and conflicts: swapped,
\* the request lies strictly around the stored row
C21_Witness ==
    /\ ret.returned /\ ~fetchError /\ Len(events) = 1
    /\ events[1].start_time < args.startTime
    /\ args.startTime < args.endTime
    /\ args.endTime < events[1].end_time
    /\ ret.hasConflict
\* the fetched rows are pairwise disjoint and each has start < end
FetchedDisjoint ==
    LET b == Fetched
    IN /\ \A i \in 1..Len(b) : b[i].start_time < b[i].end_time
       /\ \A i \in 1..Len(b) : \A j \in (i + 1)..Len(b) :
             ~HalfOpenOverlap(b[i].start_time, b[i].end_time,
                              b[j].start_time, b[j].end_time)

\* C27: when the bookings of the day are pairwise disjoint, checkVenueConflict
\* called again with a suggested slot as the request, on the same rows,
\* reports no conflict.
C27_SlotsPassRecheck ==
    (ConflictReported /\ FetchedDisjoint) =>
        \A j \in 1..Len(ret.suggestedSlots) :
            ~checkVenueConflict(args.venueId, ret.suggestedSlots[j].start_time,
                 ret.suggestedSlots[j].end_time, NoId, events, FALSE).hasConflict

\* three disjoint bookings not fetched in order, with a slot before the
\* first of them and further slots behind
C27_Witness ==
    /\ ConflictReported /\ FetchedDisjoint
    /\ Len(Fetched) = 3
    /\ ~IsSortedByStart(Fetched)
    /\ Len(ret.suggestedSlots) = 3
    /\ ret.suggestedSlots[1].start_time = DayStart

\* C28: for bookings with start < end and a request of positive duration,
\* each suggested slot ends no later than the next one starts, so the starts
\* are strictly increasing and no slot is offered twice.
C28_SlotsIncreasingAndDisjoint ==
    (ret.returned /\ RequestedDuration > 0) =>
        \A j \in 1..(Len(ret.suggestedSlots) - 1) :
            /\ ret.suggestedSlots[j].start_time < ret.suggestedSlots[j + 1].start_time
            /\ ret.suggestedSlots[j].end_time <= ret.suggestedSlots[j + 1].start_time

\* bookings that overlap one another and are not fetched in order, with two
\* slots or more
C28_Witness ==
    /\ ConflictReported
    /\ ~FetchedDisjoint
    /\ ~IsSortedByStart(Fetched)
    /\ Len(ret.suggestedSlots) >= 2

\* C29: through checkVenueConflict the suggester never runs on an empty list
\* of bookings: a result has slots only when a fetched booking conflicts,
\* and then the branch for no existing events adds nothing.
C29_NoEventsBranchNotReached ==
    ret.returned =>
        /\ ret.suggestedSlots # <<>> => ret.hasConflict /\ Fetched # <<>>
        /\ Fetched = <<>> => ret.suggestedSlots = <<>>
        /\ ret.hasConflict =>
              SlotNoEvents(SortedEvents(Fetched), args.startTime, args.endTime) = <<>>

\* no booking on the day and a request inside the working hours: the branch
\* would have offered the slot at DayStart, and the result has none
C29_Witness ==
    /\ ret.returned /\ ~fetchError
    /\ Fetched = <<>>
    /\ SlotNoEvents(<<>>, args.startTime, args.endTime) # <<>>
    /\ ret.suggestedSlots = <<>>
\* C25 as stated: on every conflict modal the user can choose Create Anyway,
\* also when slots are suggested.
C25_CreateAnywayOnEveryConflict ==
    \A u \in Users : pc[u] = "modal" => ENABLED IgnoreConflict(u)

\* C25 amended: on every conflict modal the user can cancel; a suggested
\* slot can be picked exactly when suggestedSlots is not empty, and Create
\* Anyway is offered exactly when suggestedSlots is empty.
C25_CreateAnywayOnlyWithoutSlots ==
    \A u \in Users :
        pc[u] = "modal" =>
            /\ ENABLED CancelModal(u)
            /\ (ENABLED SelectSlot(u)) <=> (conflictModal[u].suggestedSlots # <<>>)
            /\ (ENABLED IgnoreConflict(u)) <=> (conflictModal[u].suggestedSlots = <<>>)

\* a page on a conflict modal that lists a conflicting event and suggests a
\* slot
C25_Witness ==
    \E u \in Users :
        /\ pc[u] = "modal"
        /\ conflictModal[u].conflictingEvents # <<>>
        /\ conflictModal[u].suggestedSlots # <<>>

\* C26: a page leaves the check either for the modal, when the check of the
\* submitted times against the stored rows reports a conflict, and then
\* stores nothing, or for createEvent, when it reports none; createEvent is
\* otherwise reached only by Create Anyway on the modal; what createEvent
\* stores are the times it was called with, whatever is typed meanwhile; and
\* nothing else stores a row.
C26_CheckGatesCreation ==
    [][/\ \A u \in Users :
            /\ (pc[u] = "checking" /\ pc'[u] # "checking") =>
                  /\ events' = events
                  /\ \/ /\ pc'[u] = "modal"
                        /\ checkVenueConflict(TheVenue, submitted[u].start_time,
                               submitted[u].end_time, NoId, events, FALSE).hasConflict
                     \/ /\ pc'[u] = "creating"
                        /\ ~via'[u].override
                        /\ ~checkVenueConflict(TheVenue, submitted[u].start_time,
                               submitted[u].end_time, NoId, events,
                               ~via'[u].checked).hasConflict
            /\ (pc[u] # "creating" /\ pc'[u] = "creating") =>
                  \/ pc[u] = "checking" /\ submitted'[u] = submitted[u]
                  \/ pc[u] = "modal" /\ submitted'[u] = formData[u]
            /\ pc[u] = "creating" => submitted'[u] = submitted[u]
       /\ events' # events =>
            \E u \in Users :
                /\ pc[u] = "creating" /\ pc'[u] = "done"
                /\ events' = Append(events, EventRow(Len(events) + 1, TheVenue,
                                 submitted[u].start_time, submitted[u].end_time))
      ]_vars

\* one page has stored the times it was checked with, having typed other
\* times while createEvent was awaiting; the other page was shown the
\* conflict with that row and has stored nothing
C26_Witness ==
    \E u \in Users, v \in Users :
        /\ pc[u] = "done" /\ pc[v] = "modal"
        /\ Len(events) = 1
        /\ origin[1].checked /\ ~origin[1].override
        /\ events[1].start_time = submitted[u].start_time
        /\ events[1].end_time = submitted[u].end_time
        /\ formData[u] # submitted[u]
        /\ conflictModal[v].conflictingEvents = <<events[1]>>

\* C22: public.notifications holds at most one row for an e-mail address and
\* an event.  The table has no unique constraint on (email, event_id), so the
\* insert of a second row succeeds and NotifyModal answers 'subscribed'.
C22_OneRowPerSubscription ==
    \A i \in 1..Len(notifications) : \A j \in (i + 1)..Len(notifications) :
        ~(/\ notifications[i].email = notifications[j].email
          /\ notifications[i].event_id = notifications[j].event_id)

\* the reminders the mail service accepted for a notification
MailsFor(id) == {k \in 1..Len(mails) : mails[k].id = id}

\* C23: over any runs of send-notifications, also runs that overlap and runs
\* whose status update fails, a notification has its reminder sent at most
\* once.  The status is written after the mail is sent and the result of the
\* update is not looked at.
C23_ReminderSentAtMostOnce ==
    \A id \in 1..Len(notifications) : Cardinality(MailsFor(id)) <= 1

\* C24: every reminder of a run is for a notification that was pending when
\* the run read the table and whose event's registration_end lies between
\* the time of the run (the time of its query) and ReminderHours later; a
\* notification the run read as sent, or of an event whose registration had
\* ended or ends later than that, gets no reminder in the run.
C24_RemindersOnlyForPendingAndDue ==
    \A k \in 1..Len(mails) :
        LET q == run[mails[k].run]
            n == q.seen[mails[k].id]
        IN /\ mails[k].id \in 1..Len(q.seen)
           /\ n.status = "pending"
           /\ regEnd[n.event_id] >= q.at
           /\ regEnd[n.event_id] <= q.at + ReminderHours

\* a finished run whose query met a notification already sent, of an event
\* whose registration ends within ReminderHours, sent it nothing, and sent a
\* reminder for another
C24_Witness ==
    \E r \in Runs :
        /\ run[r].pc = "done"
        /\ \E i \in 1..Len(run[r].seen), j \in 1..Len(run[r].seen) :
              /\ run[r].seen[i].status = "sent"
              /\ regEnd[run[r].seen[i].event_id] >= run[r].at
              /\ regEnd[run[r].seen[i].event_id] <= run[r].at + ReminderHours
              /\ \A k \in MailsFor(i) : mails[k].run # r
              /\ \E k \in MailsFor(j) : mails[k].run = r

\* the notifications a run has sent a reminder for
MailedBy(r) == {mails[k].id : k \in {m \in 1..Len(mails) : mails[m].run = r}}

\* C30: a notification goes from pending to sent only in the turn of a run
\* that has sent its reminder, and never from sent to pending; a turn whose
\* sendEmail fails leaves the table as it is, puts the notification into the
\* errors of the run, does not count it in emailsSent and goes on to the
\* next turn, so that a run that responds has a reminder or an error for
\* every notification it fetched.
C30_SentOnlyAfterReminder ==
    [][/\ Len(notifications') >= Len(notifications)
       /\ \A id \in 1..Len(notifications) :
             notifications'[id].status # notifications[id].status =>
                /\ notifications[id].status = "pending"
                /\ notifications'[id].status = "sent"
                /\ \E r \in Runs :
                      /\ run[r].pc = "update"
                      /\ run[r].fetched[run[r].i] = id
                      /\ id \in MailedBy(r)
       /\ \A r \in Runs :
             /\ Len(run'[r].errors) > Len(run[r].errors) =>
                   /\ run[r].pc = "send"
                   /\ run'[r].errors = Append(run[r].errors, run[r].fetched[run[r].i])
                   /\ notifications' = notifications
                   /\ mails' = mails
                   /\ run'[r].emailsSent = run[r].emailsSent
                   /\ run'[r].i = run[r].i + 1
                   /\ run'[r].pc = IF run[r].i < Len(run[r].fetched)
                                   THEN "send" ELSE "done"
             /\ (run[r].pc # "done" /\ run'[r].pc = "done") =>
                   /\ \A k \in 1..Len(run'[r].fetched) :
                         \/ run'[r].fetched[k] \in MailedBy(r)'
                         \/ \E e \in 1..Len(run'[r].errors) :
                               run'[r].errors[e] = run'[r].fetched[k]
                   /\ run'[r].emailsSent + Len(run'[r].errors) = Len(run'[r].fetched)
      ]_vars

\* a run has responded after a turn whose sendEmail failed, with the
\* notification of that turn still pending, and after a later turn that sent
\* its reminder and marked its notification sent
C30_Witness ==
    \E r \in Runs :
        /\ run[r].pc = "done"
        /\ Len(run[r].fetched) = 2
        /\ run[r].errors = <<run[r].fetched[1]>>
        /\ notifications[run[r].fetched[1]].status = "pending"
        /\ run[r].fetched[2] \in MailedBy(r)
        /\ notifications[run[r].fetched[2]].status = "sent"
        /\ run[r].emailsSent = 1
====
